---- MODULE Spec2Model ----
(***************************************************************************)
(* Model of app_rodamientos.py, a Streamlit grease selector for rolling    *)
(* bearings.                                                               *)
(*                                                                         *)
(* Two specifications share the variables:                                 *)
(*   Spec    the session: every script run executes the module's top level *)
(*           (the tables of lines 23-62) and then main(); the two          *)
(*           `if st.button("Calcular")` blocks are the calculations.       *)
(*   SpecFn  the helper functions of lines 78-106 applied to arguments     *)
(*           drawn from bounded sets, the last two calls being kept.       *)
(*                                                                         *)
(* Python floats are modelled as exact rationals [n, d] in lowest terms    *)
(* (d > 0), so a comparison against a threshold is exact.  The one         *)
(* irrational operation, DN ** B, is tabulated to the nearest thousandth.  *)
(* Strings are written without accents (Vibracion, Conico).                *)
(***************************************************************************)
EXTENDS Integers, Sequences, FiniteSets, TLC

VARIABLES
    globals,    \* the module-level tables (lines 23-62), rebuilt by every script run
    last,       \* what the most recent script run computed and how it ended
    prev,       \* the same of the script run before it
    call,       \* SpecFn: the most recent helper call
    prevCall    \* SpecFn: the call before it

vars == <<globals, last, prev, call, prevCall>>

----------------------------------------------------------------------------
(* Float arithmetic, as exact rationals.                                   *)

Abs(x) == IF x < 0 THEN -x ELSE x

RECURSIVE Gcd(_, _)
Gcd(a, b) == IF b = 0 THEN a ELSE Gcd(b, a % b)

\* n/d in lowest terms with a positive denominator (d # 0).
Rat(n, d) ==
    LET g == Gcd(Abs(n), Abs(d))
        s == IF d < 0 THEN -1 ELSE 1
    IN  [n |-> (s * n) \div g, d |-> (s * d) \div g]

R(i) == [n |-> i, d |-> 1]

\* The value of a name that was never assigned (no rational has d = 0).
UNDEF == [n |-> 0, d |-> 0]

\* Sums and comparisons are taken over the least common denominator, and products
\* are cross-cancelled first, to stay inside TLC's integers.
RatAdd(x, y) ==
    LET g == Gcd(x.d, y.d)
    IN  Rat(x.n * (y.d \div g) + y.n * (x.d \div g), (x.d \div g) * y.d)

RatMul(x, y) ==
    LET g1 == Gcd(Abs(x.n), y.d)
        g2 == Gcd(Abs(y.n), x.d)
    IN  Rat((x.n \div g1) * (y.n \div g2), (x.d \div g2) * (y.d \div g1))

\* x / y for y # 0.
RatDiv(x, y) == RatMul(x, Rat(y.d, y.n))

RatLeq(x, y) ==
    LET g == Gcd(x.d, y.d)
    IN  x.n * (y.d \div g) <= y.n * (x.d \div g)

RatLt(x, y) ==
    LET g == Gcd(x.d, y.d)
    IN  x.n * (y.d \div g) < y.n * (x.d \div g)

\* int(x): truncation towards zero.
Trunc(x) == IF x.n >= 0 THEN x.n \div x.d ELSE -((-x.n) \div x.d)

----------------------------------------------------------------------------
(* The module-level tables, lines 23-62.                                   *)

A == Rat(7, 10)

B == Rat(23, 100)

LOAD_FACTORS == ("Baja" :> R(1)) @@ ("Media" :> Rat(12, 10)) @@ ("Alta" :> Rat(15, 10))

pos_factors == ("Horizontal" :> R(1)) @@ ("Vertical" :> Rat(75, 100))

\* np.inf is the threshold every finite Ks is below.
NLGI_THRESHOLDS ==
    << [inf |-> FALSE, threshold |-> R(80),  grade |-> "3"],
       [inf |-> FALSE, threshold |-> R(160), grade |-> "2"],
       [inf |-> FALSE, threshold |-> R(240), grade |-> "1"],
       [inf |-> TRUE,  threshold |-> R(0),   grade |-> "0"] >>

THICKENER_OPTIONS == << "Complejo de litio", "Sulfonato de calcio complejo", "Poliurea" >>

BEARING_TYPES == {"Bolas", "Rodillos", "Conico", "Axial"}

\* What executing the module's top level leaves in the globals.
ModuleGlobals ==
    [A |-> A, B |-> B, LOAD_FACTORS |-> LOAD_FACTORS, pos_factors |-> pos_factors,
     NLGI_THRESHOLDS |-> NLGI_THRESHOLDS, THICKENER_OPTIONS |-> THICKENER_OPTIONS]

\* The options of the multiselect of line 152.
AMBIENTES == {"Agua", "Polvo", "Alta temperatura", "Vibracion"}

----------------------------------------------------------------------------
(* DN ** B for B = 0.23, to the nearest thousandth, at the speed factors   *)
(* the model uses: <<DN, round(1000 * DN ** 0.23)>>.  0.0 ** 0.23 = 0.0.   *)

POW_B_MILLI ==
    { <<R(0), 0>>, <<R(1), 1000>>, <<R(70), 2657>>, <<R(350), 3847>>, <<R(700), 4512>>,
      <<R(10000), 8318>>, <<R(105000), 14285>> }

POW_DOMAIN == { e[1] : e \in POW_B_MILLI }

Pow(x, b) ==
    LET e == CHOOSE e \in POW_B_MILLI : e[1] = x /\ b = Rat(23, 100)
    IN  Rat(e[2], 1000)

----------------------------------------------------------------------------
(* The helper functions, lines 78-106.                                     *)

calc_Dm(d, D) == RatDiv(RatAdd(d, D), R(2))

calc_DN(n, Dm) == RatMul(n, Dm)

calc_base_viscosity(DN) == RatMul(globals.A, Pow(DN, globals.B))

adjust_for_load(visc40, carga) == RatMul(visc40, globals.LOAD_FACTORS[carga])

\* A comparison that leaves the threshold itself to the next grade.
LtThreshold(Ks, t) == t.inf \/ RatLt(Ks, t.threshold)

\* Ks <= threshold, line 98.
LeqThreshold(Ks, t) == t.inf \/ RatLeq(Ks, t.threshold)

\* The for loop of lines 97-99 from entry i on, and the return of line 100.
RECURSIVE NLGI_walk(_, _)
NLGI_walk(Ks, i) ==
    IF i > Len(globals.NLGI_THRESHOLDS)
    THEN [grade |-> "2", via |-> "fallback"]
    ELSE IF LeqThreshold(Ks, globals.NLGI_THRESHOLDS[i])
         THEN [grade |-> globals.NLGI_THRESHOLDS[i].grade, via |-> "threshold"]
         ELSE NLGI_walk(Ks, i + 1)

\* The rounding policy: the grade is Ks rounded and kept within 0..3.
select_NLGI_round(DN, visc40) ==
    IF visc40.n = 0
    THEN [raised |-> "ZeroDivisionError", grade |-> "", Ks |-> UNDEF, via |-> ""]
    ELSE LET Ks == RatDiv(DN, visc40)
         IN  [raised |-> "", Ks |-> Ks, via |-> "threshold",
              grade |-> IF RatLt(Ks, Rat(1, 2)) THEN "0"
                        ELSE IF RatLt(Ks, Rat(3, 2)) THEN "1"
                        ELSE IF RatLt(Ks, Rat(5, 2)) THEN "2" ELSE "3"]

\* Line 96 divides two floats with no test of the divisor: Python raises
\* ZeroDivisionError there when visc40 is 0.0.
select_NLGI(DN, visc40) ==
    IF visc40.n = 0
    THEN [raised |-> "ZeroDivisionError", grade |-> "", Ks |-> UNDEF, via |-> ""]
    ELSE LET Ks == RatDiv(DN, visc40)
             w  == NLGI_walk(Ks, 1)
         IN  [raised |-> "", grade |-> w.grade, Ks |-> Ks, via |-> w.via]

\* A selection that forgets the vibration.
select_thickener_agua(amb) ==
    IF "Agua" \in amb
    THEN "Sulfonato de calcio complejo"
    ELSE "Complejo de litio"

select_thickener(amb) ==
    IF "Agua" \in amb \/ "Vibracion" \in amb
    THEN "Sulfonato de calcio complejo"
    ELSE "Complejo de litio"

\* An interval that rounds to the nearest hour instead of truncating.
interval_hours_round(carga, posicion) ==
    Trunc(RatAdd(RatMul(RatDiv(R(2000), globals.LOAD_FACTORS[carga]),
                        globals.pos_factors[posicion]), Rat(1, 2)))

\* An interval that adds up over the calculations of a session.
interval_hours_accum(carga, posicion) ==
    Trunc(RatMul(RatDiv(R(2000), globals.LOAD_FACTORS[carga]), globals.pos_factors[posicion]))
    + (IF last.block = 2 /\ last.raised = "" THEN last.interval ELSE 0)

\* int((2000 / LOAD_FACTORS[carga]) * pos_factors[posicion]), lines 167 and 182.
interval_hours(carga, posicion) ==
    Trunc(RatMul(RatDiv(R(2000), globals.LOAD_FACTORS[carga]), globals.pos_factors[posicion]))

----------------------------------------------------------------------------
(* The session: what the widgets of lines 145-152 can hand to main().      *)

\* min_value of the three number inputs, lines 146-148.
MIN_RPM == 1

MIN_DIAM == Rat(1, 10)

\* Values a user may type; a number input keeps only those within its limits.
D_INT_TYPED == {R(0), R(50)}

D_EXT_TYPED == {R(90)}

\* The bearing type, speed, temperature and environment a user may enter: a usual
\* entry, and the entries that differ from it in the type, the temperature, both,
\* the speed (one below the minimum, one of a slow shaft) or the environment.
ENTRIES ==
    { [tipo |-> "Bolas",    rpm |-> 1500, temp |-> 60,  ambs |-> {}],
      [tipo |-> "Rodillos", rpm |-> 1500, temp |-> 60,  ambs |-> {}],
      [tipo |-> "Bolas",    rpm |-> 1500, temp |-> 120, ambs |-> {}],
      [tipo |-> "Rodillos", rpm |-> 1500, temp |-> 120, ambs |-> {}],
      [tipo |-> "Bolas",    rpm |-> 0,    temp |-> 60,  ambs |-> {}],
      [tipo |-> "Bolas",    rpm |-> 5,    temp |-> 60,  ambs |-> {}],
      [tipo |-> "Bolas",    rpm |-> 1500, temp |-> 60,  ambs |-> {"Polvo", "Vibracion"}] }

\* What a user may enter in the form.
Typed ==
    { [tipo |-> e.tipo, rpm |-> e.rpm, d |-> d, D |-> D, temp |-> e.temp, carga |-> c,
       posicion |-> p, ambs |-> e.ambs] :
        e \in ENTRIES, d \in D_INT_TYPED, D \in D_EXT_TYPED,
        c \in DOMAIN globals.LOAD_FACTORS, p \in DOMAIN globals.pos_factors }

\* What the widgets let through: the options of the select boxes, and the limits of
\* the number inputs.
Inputs ==
    { in \in Typed :
        /\ in.tipo \in BEARING_TYPES
        /\ in.rpm >= MIN_RPM
        /\ RatLeq(MIN_DIAM, in.d)
        /\ RatLeq(MIN_DIAM, in.D)
        /\ in.temp >= -50 /\ in.temp <= 200
        /\ in.ambs \subseteq AMBIENTES }

NoInputs ==
    [tipo |-> "", rpm |-> 0, d |-> UNDEF, D |-> UNDEF, temp |-> 0, carga |-> "",
     posicion |-> "", ambs |-> {}]

\* A script run that entered neither block.
NoRun ==
    [block |-> 0, inputs |-> NoInputs, raised |-> "", stages |-> << >>, notices |-> << >>,
     Dm |-> UNDEF, DN |-> UNDEF, visc40 |-> UNDEF, visc_corr |-> UNDEF, NLGI |-> "",
     Ks |-> UNDEF, recommended |-> "", interval |-> -1]

AllStages == << "Dm", "DN", "visc40", "visc_corr", "NLGI", "recommended", "interval" >>

\* The block of lines 155-171.  Line 163 calls the float that adjust_for_load returns:
\* TypeError, with Dm, DN and visc40 assigned and nothing after them.
FirstBlock(in) ==
    LET Dm     == calc_Dm(in.d, in.D)
        DN     == calc_DN(R(in.rpm), Dm)
        visc40 == calc_base_viscosity(DN)
    IN  [block |-> 1, inputs |-> in, raised |-> "TypeError",
         stages |-> << "Dm", "DN", "visc40" >>,
         notices |-> IF RatLt(DN, R(10000)) THEN << "DN bajo" >> ELSE << >>,
         Dm |-> Dm, DN |-> DN, visc40 |-> visc40, visc_corr |-> UNDEF, NLGI |-> "",
         Ks |-> UNDEF, recommended |-> "", interval |-> -1]

\* Lines 175-182 on the values read from the widgets.
SecondCalc(d, D, rpm, carga, posicion, ambs) ==
    LET Dm        == calc_Dm(d, D)
        DN        == calc_DN(R(rpm), Dm)
        visc40    == calc_base_viscosity(DN)
        visc_corr == adjust_for_load(visc40, carga)
        nlgi      == select_NLGI(DN, visc40)
    IN  IF nlgi.raised # ""
        THEN [block |-> 2, inputs |-> NoInputs, raised |-> nlgi.raised,
              stages |-> << "Dm", "DN", "visc40", "visc_corr" >>, notices |-> << >>,
              Dm |-> Dm, DN |-> DN, visc40 |-> visc40, visc_corr |-> visc_corr,
              NLGI |-> "", Ks |-> UNDEF, recommended |-> "", interval |-> -1]
        ELSE [block |-> 2, inputs |-> NoInputs, raised |-> "", stages |-> AllStages,
              notices |-> << >>,
              Dm |-> Dm, DN |-> DN, visc40 |-> visc40, visc_corr |-> visc_corr,
              NLGI |-> nlgi.grade, Ks |-> nlgi.Ks,
              recommended |-> select_thickener(ambs),
              interval |-> interval_hours(carga, posicion)]

\* A second block that lets the temperature decide the load class.
SecondBlock_temp(in) ==
    [SecondCalc(in.d, in.D, in.rpm, IF in.temp > 100 THEN "Alta" ELSE in.carga,
                in.posicion, in.ambs) EXCEPT !.inputs = in]

\* The block of lines 173-182 (what follows it only displays the values): of the
\* widgets' values it reads d, D, rpm, carga, posicion and ambs.
SecondBlock(in) ==
    [SecondCalc(in.d, in.D, in.rpm, in.carga, in.posicion, in.ambs) EXCEPT !.inputs = in]

NoCall ==
    [fn |-> "", x |-> UNDEF, y |-> UNDEF, carga |-> "", amb |-> {},
     raised |-> "", val |-> UNDEF, text |-> "", via |-> ""]

Init ==
    /\ globals = ModuleGlobals
    /\ last = NoRun
    /\ prev = NoRun
    /\ call = NoCall
    /\ prevCall = NoCall

(* One script run per action.  The two buttons of lines 155 and 173 carry  *)
(* the same label and no key; what st.button answers is the library's, so  *)
(* each answer it can give is an input of the run.                         *)

\* The first button answers True: lines 155-171.
CalcularFirst ==
    \E in \in Inputs :
        /\ globals' = ModuleGlobals
        /\ prev' = last
        /\ last' = FirstBlock(in)
        /\ UNCHANGED <<call, prevCall>>

\* The first button answers False and the second True: lines 173-230.
CalcularSecond ==
    \E in \in Inputs :
        /\ globals' = ModuleGlobals
        /\ prev' = last
        /\ last' = SecondBlock(in)
        /\ UNCHANGED <<call, prevCall>>

\* Neither button answers True: the form is drawn and nothing is computed.
Render ==
    /\ globals' = ModuleGlobals
    /\ prev' = last
    /\ last' = NoRun
    /\ UNCHANGED <<call, prevCall>>

\* The second st.button is refused as a duplicate of the first.
DuplicateButton ==
    /\ globals' = ModuleGlobals
    /\ prev' = last
    /\ last' = [NoRun EXCEPT !.raised = "DuplicateWidgetID"]
    /\ UNCHANGED <<call, prevCall>>

Next == CalcularFirst \/ CalcularSecond \/ Render \/ DuplicateButton

Spec == Init /\ [][Next]_vars

----------------------------------------------------------------------------
(* The helper functions on their own: one call per action, on arguments    *)
(* drawn from the sets below; the module's top level ran once.             *)

FN_DIAMS == {R(-5), R(0), R(50), R(90)}

FN_SPEEDS == {R(0), R(1500)}

FN_MEANS == {R(0), R(70)}

FN_VISCS == {R(0), R(1), R(2)}

\* The speed factors go up to 40 * MaxStep.
MaxStep == 7

\* Every multiple of 40 (the thresholds 80, 160 and 240 among them) and the value
\* 0.0001 above it.
FN_DNS ==
    { R(40 * k) : k \in 0..MaxStep } \cup { Rat(400000 * k + 1, 10000) : k \in 0..MaxStep }

CallCalcDm ==
    \E d \in FN_DIAMS, D \in FN_DIAMS :
        /\ call' = [NoCall EXCEPT !.fn = "calc_Dm", !.x = d, !.y = D, !.val = calc_Dm(d, D)]
        /\ prevCall' = call
        /\ UNCHANGED <<globals, last, prev>>

CallCalcDN ==
    \E n \in FN_SPEEDS, Dm \in FN_MEANS :
        /\ call' = [NoCall EXCEPT !.fn = "calc_DN", !.x = n, !.y = Dm, !.val = calc_DN(n, Dm)]
        /\ prevCall' = call
        /\ UNCHANGED <<globals, last, prev>>

CallCalcBaseViscosity ==
    \E DN \in POW_DOMAIN :
        /\ call' = [NoCall EXCEPT !.fn = "calc_base_viscosity", !.x = DN,
                                  !.val = calc_base_viscosity(DN)]
        /\ prevCall' = call
        /\ UNCHANGED <<globals, last, prev>>

CallAdjustForLoad ==
    \E visc40 \in FN_VISCS, carga \in DOMAIN globals.LOAD_FACTORS :
        /\ call' = [NoCall EXCEPT !.fn = "adjust_for_load", !.x = visc40, !.carga = carga,
                                  !.val = adjust_for_load(visc40, carga)]
        /\ prevCall' = call
        /\ UNCHANGED <<globals, last, prev>>

CallSelectNLGI ==
    \E DN \in FN_DNS, visc40 \in FN_VISCS :
        /\ call' = [NoCall EXCEPT !.fn = "select_NLGI", !.x = DN, !.y = visc40,
                                  !.raised = select_NLGI(DN, visc40).raised,
                                  !.val = select_NLGI(DN, visc40).Ks,
                                  !.text = select_NLGI(DN, visc40).grade,
                                  !.via = select_NLGI(DN, visc40).via]
        /\ prevCall' = call
        /\ UNCHANGED <<globals, last, prev>>

CallSelectThickener ==
    \E amb \in SUBSET AMBIENTES :
        /\ call' = [NoCall EXCEPT !.fn = "select_thickener", !.amb = amb,
                                  !.text = select_thickener(amb)]
        /\ prevCall' = call
        /\ UNCHANGED <<globals, last, prev>>

NextFn ==
    \/ CallCalcDm
    \/ CallCalcDN
    \/ CallCalcBaseViscosity
    \/ CallAdjustForLoad
    \/ CallSelectNLGI
    \/ CallSelectThickener

SpecFn == Init /\ [][NextFn]_vars

----------------------------------------------------------------------------
(* The claims.                                                             *)

Calculated(r) == r.block # 0

Completed(r) == r.block = 2 /\ r.raised = ""

\* C1: every triggered calculation runs the seven stages in order and completes:
\* no stage raises and all derived values are produced.
C1_EveryCalculationCompletes ==
    Calculated(last) => (last.raised = "" /\ last.stages = AllStages)

\* C2: select_thickener returns one of "Sulfonato de calcio complejo" and
\* "Complejo de litio" for every subset of the four environment tags, never fails,
\* and returns the sulfonate exactly when the set holds Agua or Vibracion.
C2_ThickenerTotal ==
    call.fn = "select_thickener" =>
        /\ call.raised = ""
        /\ call.text \in {"Sulfonato de calcio complejo", "Complejo de litio"}
        /\ (call.text = "Sulfonato de calcio complejo"
                <=> (call.amb \cap {"Agua", "Vibracion"}) # {})

C2_Witness ==
    /\ call.fn = "select_thickener"
    /\ call.amb = {"Polvo", "Vibracion"}
    /\ call.text = "Sulfonato de calcio complejo"
    /\ prevCall.fn = "select_thickener"
    /\ prevCall.amb = {"Polvo", "Alta temperatura"}
    /\ prevCall.text = "Complejo de litio"

\* C3: for Ks = DN / visc40 >= 0, select_NLGI returns "3" for Ks <= 80, "2" for
\* 80 < Ks <= 160, "1" for 160 < Ks <= 240 and "0" above; the grade comes from the
\* threshold list, never from the fallback return.
C3_NLGIBuckets ==
    (call.fn = "select_NLGI" /\ call.y.n > 0 /\ call.x.n >= 0) =>
        LET num == call.x.n * call.y.d
            den == call.y.n * call.x.d
        IN  /\ call.raised = ""
            /\ call.via = "threshold"
            /\ call.text = IF num <= 80 * den THEN "3"
                           ELSE IF num <= 160 * den THEN "2"
                           ELSE IF num <= 240 * den THEN "1" ELSE "0"

C3_Witness ==
    /\ call.fn = "select_NLGI" /\ call.x = R(80) /\ call.y = R(1) /\ call.text = "3"
    /\ prevCall.fn = "select_NLGI" /\ prevCall.x = Rat(800001, 10000) /\ prevCall.y = R(1)
    /\ prevCall.text = "2"

\* C4: with zero speed (DN = 0, visc40 = 0) the division of select_NLGI is guarded:
\* the call ends in the DivisionByZero error or with Ks = 0, never in the
\* division by zero itself.
C4_DivisionGuarded ==
    (call.fn = "select_NLGI" /\ call.y.n = 0) =>
        \/ call.raised = "DivisionByZero"
        \/ (call.raised = "" /\ call.val = R(0))

\* C5: calc_Dm fails with InvalidInput whenever d or D is negative; it returns no
\* mean diameter for them.
C5_NegativeDiameterRejected ==
    (call.fn = "calc_Dm" /\ (call.x.n < 0 \/ call.y.n < 0)) =>
        (call.raised = "InvalidInput" /\ call.val = UNDEF)

\* C6: the relubrication interval of a completed calculation is
\* floor(2000 / loadFactor * positionFactor) hours, with the load factors 1.0, 1.2,
\* 1.5 and the position factors 1.0, 0.75: never negative, and 1000 for Alta and
\* Vertical.
C6_Interval ==
    Completed(last) =>
        /\ last.interval >= 0
        /\ last.interval =
              CASE last.inputs.carga = "Baja"  /\ last.inputs.posicion = "Horizontal" -> 2000
                [] last.inputs.carga = "Baja"  /\ last.inputs.posicion = "Vertical"   -> 1500
                [] last.inputs.carga = "Media" /\ last.inputs.posicion = "Horizontal" -> 1666
                [] last.inputs.carga = "Media" /\ last.inputs.posicion = "Vertical"   -> 1250
                [] last.inputs.carga = "Alta"  /\ last.inputs.posicion = "Horizontal" -> 1333
                [] last.inputs.carga = "Alta"  /\ last.inputs.posicion = "Vertical"   -> 1000

C6_Witness ==
    /\ Completed(last)
    /\ last.inputs.carga = "Alta" /\ last.inputs.posicion = "Vertical"
    /\ last.interval = 1000
    /\ Completed(prev)
    /\ prev.inputs.carga = "Media" /\ prev.inputs.posicion = "Horizontal"
    /\ prev.interval = 1666

GradeNumber(g) == CASE g = "0" -> 0 [] g = "1" -> 1 [] g = "2" -> 2 [] g = "3" -> 3

\* C7: for one base viscosity visc40 > 0 and two speed factors DN1 <= DN2, the grade
\* select_NLGI returns for DN2 is not above the grade it returns for DN1.
C7_GradeMonotone ==
    ( /\ call.fn = "select_NLGI" /\ prevCall.fn = "select_NLGI"
      /\ call.y = prevCall.y /\ call.y.n > 0
      /\ RatLeq(prevCall.x, call.x) ) =>
        /\ call.raised = "" /\ prevCall.raised = ""
        /\ GradeNumber(call.text) <= GradeNumber(prevCall.text)

C7_Witness ==
    /\ call.fn = "select_NLGI" /\ prevCall.fn = "select_NLGI"
    /\ call.y = R(2) /\ prevCall.y = R(2)
    /\ prevCall.x = R(160) /\ call.x = R(280)
    /\ prevCall.text = "3" /\ call.text = "2"

C9_ViscosityFloor ==
    LET floor == ("Baja" :> R(20)) @@ ("Media" :> R(50)) @@ ("Alta" :> R(150))
        raw   == RatMul(A, Pow(last.DN, B))
    IN  (Calculated(last) /\ RatLt(raw, floor[last.inputs.carga])) =>
            /\ last.raised = ""
            /\ last.notices # << >>
            /\ last.visc40 = floor[last.inputs.carga]
            /\ last.visc_corr = RatMul(floor[last.inputs.carga], LOAD_FACTORS[last.inputs.carga])
            /\ last.Ks = RatDiv(last.DN, floor[last.inputs.carga])

\* C10: two calculations that agree on d, D, the speed, the load class, the
\* mounting position and the environment give the same Dm, DN, viscosities, Ks,
\* grade, thickener and interval, whatever the bearing type and the temperature.
Core(in) == [in EXCEPT !.tipo = "", !.temp = 0]

Values(r) == [r EXCEPT !.inputs = NoInputs]

C10_TypeAndTemperatureIgnored ==
    (Calculated(last) /\ prev.block = last.block /\ Core(prev.inputs) = Core(last.inputs))
        => Values(prev) = Values(last)

C10_Witness ==
    /\ Completed(last) /\ Completed(prev)
    /\ Core(prev.inputs) = Core(last.inputs)
    /\ prev.inputs.tipo = "Bolas" /\ last.inputs.tipo = "Rodillos"
    /\ prev.inputs.temp = 60 /\ last.inputs.temp = 120
    /\ last.visc_corr = prev.visc_corr /\ last.interval = 1333

====
